---- MODULE Spec2Model ----
(***************************************************************************)
(* backupctl: the backup / restore orchestration engine.                   *)
(*                                                                         *)
(* The ledger (backup_metadata, wal_metadata, restore_operations), the     *)
(* object store, the two engines' temporary work areas and ledger          *)
(* connections are the state.  An operation (create_full_backup,           *)
(* create_incremental_backup, restore_backup) runs as a sequence of steps  *)
(* in one control flow; pc is its position.  The outcome of every external *)
(* step (ledger statement, dump tool, transfer, restore tool, file write)  *)
(* is chosen by the environment.                                           *)
(***************************************************************************)
EXTENDS Integers, Sequences, FiniteSets, TLC

\* ------------------------------------------------------------- bounds
MaxBackups == 2
MaxRestores == 1
MaxWal == 2
FullDays == 0
IncrementalDays == 0
MaxTime == FullDays + 1
MaxLen == 3
MaxThreads == 2

BackupIds == 1..MaxBackups
RestoreIds == 1..MaxRestores
Days == 0..MaxTime
Contents == {"dump"}

\* ------------------------------------------------------------- values
NullKey == <<>>
NullSum == <<>>
NullFile == <<>>
NoTime == -1
NoId == 0

\* the target_time argument of restore_backup: None, or an ISO timestamp that
\* carries a UTC offset ("aware") or none ("naive")
NoTarget == [day |-> NoTime, tz |-> "none"]
Targets == {NoTarget} \cup [day : Days, tz : {"aware", "naive"}]

\* what the backing store does with one statement of the ledger
LedgerOutcomes == {"ok", "rejected", "unreachable"}
\* what the object store does with one transfer
UploadOutcomes == {"ok", "corrupt", "verify_error", "fail"}
DumpOutcomes == {"ok", "timeout", "nonzero", "empty"}
ToolOutcomes == {"ok", "nonzero", "timeout"}

VARIABLES
    backups,     \* backup_metadata: backup id -> row (status "absent": no row)
    wals,        \* wal_metadata: set of rows
    restores,    \* restore_operations: restore id -> row
    store,       \* the bucket: remote key -> object
    now,         \* the clock, in whole days
    fk_enforced, \* the backing store enforces wal_metadata.backup_id REFERENCES
    b_temp,      \* BackupEngine.temp_dir exists
    r_temp,      \* RestoreEngine.temp_dir exists
    r_conn,      \* RestoreEngine's MetadataManager.connection is open
    n_backups,   \* backup identifiers generated so far
    n_restores,  \* restore identifiers generated so far
    pc,          \* position of the operation in flight, "idle" when none
    cur,         \* locals of the operation in flight; at pc = "returned",
                 \* what the operation gave its caller
    sched        \* the BackupScheduler: its fields, its loop threads and the
                 \* jobs registered with the schedule module

vars == <<backups, wals, restores, store, now, fk_enforced, b_temp, r_temp,
          r_conn, n_backups, n_restores, pc, cur, sched>>

AbsentBackup ==
    [backup_type |-> "none", status |-> "absent", start_ts |-> NoTime,
     s3_key |-> NullKey, checksum |-> NullSum,
     compression |-> "NULL", encryption |-> "NULL"]

AbsentRestore ==
    [backup_id |-> NoId, status |-> "absent", error_message |-> "NULL"]

NoLocals ==
    [op |-> "none", ret |-> "none", id |-> NoId, start |-> NoTime, file |-> NullFile, key |-> NullKey,
     sum |-> NullSum, base |-> NoId, given |-> FALSE, target |-> NoTarget,
     failed_step |-> "none", downloaded |-> FALSE, tool |-> FALSE,
     todo |-> <<>>, sent |-> 0, uploaded |-> 0, fetched |-> <<>>, applied |-> <<>>,
     listed |-> {}, candidates |-> {}, deletes |-> {}, dry_run |-> FALSE,
     input |-> <<>>, packed |-> <<>>, unpacked |-> <<>>]

\* BackupScheduler.__init__: not running, no thread; no job is registered with
\* the schedule module. A thread is "none" before it is created; caller is
\* where the thread that calls start() and stop() is
NoThread == 0
ThreadIds == 1..MaxThreads
NewScheduler ==
    [running |-> FALSE, scheduler_thread |-> NoThread,
     threads |-> [t \in ThreadIds |-> "none"], jobs |-> 0,
     caller |-> "idle"]

\* the loop threads that were started and have not left run_scheduler
ActiveThreads(s) == {t \in ThreadIds : s.threads[t] \notin {"none", "ended"}}

\* what an operation hands back: "success" is (True, id), "failure" is
\* (False, reason), "raised" is an exception that left the operation
Result(op, c, ret) ==
    [c EXCEPT !.op = op, !.ret = ret, !.start = NoTime, !.file = NullFile,
              !.key = NullKey, !.sum = NullSum, !.todo = <<>>]

\* ------------------------------------------------------------- crypto
\* calculate_checksum: a digest of the file's bytes (collision-free here)
calculate_checksum(file) == <<"sha256", file>>

\* a faulty variant: every file passes
verify_checksum_Always(file, expected) == TRUE

verify_checksum(file, expected) == calculate_checksum(file) = expected

\* a file is <<content, "plain" | "gz">>
compress_file(file) == <<file[1], "gz">>

decompress_file(file) == <<file[1], "plain">>

\* bytes damaged in transfer
Damaged(file) == <<"damaged", file[2]>>

\* the two functions on the bytes of a file. A file's content is a sequence of
\* bytes; one of them is the line terminator
Newline == "\n"
Bytes == {"a", "b", Newline}

RECURSIVE SeqsUpTo(_, _)
SeqsUpTo(S, n) ==
    IF n = 0 THEN {<<>>}
    ELSE LET shorter == SeqsUpTo(S, n - 1)
         IN  shorter \cup {Append(s, x) : s \in shorter, x \in S}

ByteContents == SeqsUpTo(Bytes, MaxLen)

\* a faulty variant: the iteration drops the line terminators
RECURSIVE Lines_Stripped(_)
Lines_Stripped(data) ==
    IF data = <<>> THEN <<>>
    ELSE LET ends == {i \in 1..Len(data) : data[i] = Newline}
             end == IF ends = {} THEN Len(data) + 1
                    ELSE CHOOSE i \in ends : \A j \in ends : i <= j
         IN  <<SubSeq(data, 1, end - 1)>>
             \o Lines_Stripped(SubSeq(data, end + 1, Len(data)))

\* iterating a binary file object: the lines, each with its terminator, the
\* last one possibly without
RECURSIVE Lines(_)
Lines(data) ==
    IF data = <<>> THEN <<>>
    ELSE LET ends == {i \in 1..Len(data) : data[i] = Newline}
             end == IF ends = {} THEN Len(data)
                    ELSE CHOOSE i \in ends : \A j \in ends : i <= j
         IN  <<SubSeq(data, 1, end)>> \o Lines(SubSeq(data, end + 1, Len(data)))

\* writelines: the chunks one after the other
RECURSIVE writelines(_)
writelines(chunks) ==
    IF chunks = <<>> THEN <<>> ELSE Head(chunks) \o writelines(Tail(chunks))

\* the compressed stream of a gzip member, as runs <<byte, length>>
RECURSIVE Deflate(_)
Deflate(data) ==
    IF data = <<>> THEN <<>>
    ELSE LET differ == {i \in 1..Len(data) : data[i] # data[1]}
             n == IF differ = {} THEN Len(data)
                  ELSE (CHOOSE i \in differ : \A j \in differ : i <= j) - 1
         IN  <<<<data[1], n>>>> \o Deflate(SubSeq(data, n + 1, Len(data)))

RECURSIVE Inflate(_)
Inflate(runs) ==
    IF runs = <<>> THEN <<>>
    ELSE [i \in 1..Head(runs)[2] |-> Head(runs)[1]] \o Inflate(Tail(runs))

\* the check value of the gzip trailer
Crc32(data) == <<"crc32", data>>

\* compress_file on bytes: the input's lines written through gzip.open(.., 'wb')
compress_bytes(data) ==
    LET written == writelines(Lines(data))
    IN  [magic |-> "gzip", body |-> Deflate(written), crc |-> Crc32(written),
         isize |-> Len(written)]

\* decompress_file on bytes: the lines of gzip.open(.., 'rb') written to the
\* output; a member whose trailer does not match raises, and False is returned
decompress_bytes(blob) ==
    LET read == Inflate(blob.body)
    IN  IF blob.magic = "gzip" /\ Crc32(read) = blob.crc /\ Len(read) = blob.isize
        THEN [ok |-> TRUE, data |-> writelines(Lines(read))]
        ELSE [ok |-> FALSE, data |-> <<>>]

\* ------------------------------------------------------------- object store
\* a faulty variant: the date is not taken at the upload
get_s3_key_FixedDate(backup_type, day, filename) == <<"backups", backup_type, 0, filename>>

\* {prefix}/{kind}/{yyyy}/{mm}/{dd}/{filename}
get_s3_key(backup_type, day, filename) == <<"backups", backup_type, day, filename>>

Put(s, key, obj) == [k \in DOMAIN s \cup {key} |-> IF k = key THEN obj ELSE s[k]]

Delete(s, key) == [k \in DOMAIN s \ {key} |-> s[k]]

\* S3Client.upload_file: [ok, key, store]
upload_file(s, file, backup_type, filename, day, o) ==
    LET key == get_s3_key(backup_type, day, filename)
        sum == calculate_checksum(file)
        sent == IF o = "corrupt" THEN Damaged(file) ELSE file
        obj == [data |-> sent, meta |-> sum]
        \* _verify_upload: the object is read back and its checksum compared;
        \* an error of the read-back counts as a failed verification
        verified == o # "verify_error" /\ verify_checksum(obj.data, sum)
    IN  IF o = "fail"
        THEN [ok |-> FALSE, key |-> NullKey, store |-> s]
        ELSE [ok |-> verified,
              key |-> IF verified THEN key ELSE NullKey,
              store |-> Put(s, key, obj)]

\* S3Client.delete_file: delete_object; an error is logged and swallowed
delete_file(s, key, o) == IF o = "ok" THEN Delete(s, key) ELSE s

\* ------------------------------------------------------------- ledger
\* the connection after a statement: a lost link is noticed and marked closed,
\* a closed one is reopened when the store can be reached
ConnAfter(o) == o # "unreachable"

\* MetadataManager.create_backup_record: INSERT or raise
create_backup_record(bk, id, row, o) ==
    IF o = "ok" /\ bk[id].status = "absent"
    THEN [raised |-> FALSE, backups |-> [bk EXCEPT ![id] = row]]
    ELSE [raised |-> TRUE, backups |-> bk]

\* the columns update_backup_status writes: status always, and of the keyword
\* arguments only size_bytes, s3_key and checksum
UpdatedRow(row, status, key, sum) ==
    [row EXCEPT !.status = status,
                !.s3_key = IF key = NullKey THEN @ ELSE key,
                !.checksum = IF sum = NullSum THEN @ ELSE sum]

\* a faulty variant: the UPDATE without its WHERE clause
UpdateTargets_NoWhere(bk, id) == {i \in DOMAIN bk : bk[i].status # "absent"}

\* the rows UPDATE ... WHERE backup_id = %s touches
UpdateTargets(bk, id) == {i \in DOMAIN bk : i = id /\ bk[i].status # "absent"}

\* MetadataManager.update_backup_status: ret is "true", "false" or "raised"
update_backup_status(bk, id, status, key, sum, o) ==
    IF o = "ok"
    THEN [ret |-> "true",
          backups |-> [i \in DOMAIN bk |->
                          IF i \in UpdateTargets(bk, id)
                          THEN UpdatedRow(bk[i], status, key, sum) ELSE bk[i]]]
    ELSE IF o = "rejected"
    THEN [ret |-> "false", backups |-> bk]
    ELSE [ret |-> "raised", backups |-> bk]

\* MetadataManager.list_backups: every row (the scan's limit is not reached
\* here), or nothing when the statement fails
list_backups(bk, o) == IF o = "ok" THEN {i \in DOMAIN bk : bk[i].status # "absent"} ELSE {}

\* ------------------------------------------------------------- state
Init ==
    /\ backups = [i \in BackupIds |-> AbsentBackup]
    /\ wals = {}
    /\ restores = [i \in RestoreIds |-> AbsentRestore]
    /\ store = <<>>
    /\ now = 0
    /\ fk_enforced \in BOOLEAN
    /\ b_temp = TRUE
    /\ r_temp = TRUE
    /\ r_conn = TRUE
    /\ n_backups = 0
    /\ n_restores = 0
    /\ pc = "idle"
    /\ cur = NoLocals
    /\ sched = NewScheduler

\* the clock advances between operations
Tick ==
    /\ pc = "idle"
    /\ now < MaxTime
    /\ now' = now + 1
    /\ UNCHANGED sched
    /\ UNCHANGED <<backups, wals, restores, store, fk_enforced, b_temp, r_temp,
                   r_conn, n_backups, n_restores, pc, cur>>

\* BackupEngine.__init__: a fresh work area and a connected MetadataManager
NewBackupEngine ==
    /\ pc = "idle"
    /\ b_temp' = TRUE
    /\ UNCHANGED sched
    /\ UNCHANGED <<backups, wals, restores, store, now, fk_enforced, r_temp,
                   r_conn, n_backups, n_restores, pc, cur>>

\* _cleanup_temp_files: rmtree, an error is logged and swallowed
cleanup_temp_files(temp, removed) == IF removed THEN FALSE ELSE temp

\* ------------------------------------------------------------- full backup
RunningFull(start) ==
    [backup_type |-> "full", status |-> "running", start_ts |-> start,
     s3_key |-> NullKey, checksum |-> NullSum,
     compression |-> "NULL", encryption |-> "NULL"]

\* {backup_id}.sql, {backup_id}.sql.gz
BackupFilename(id, file) == <<id, IF file[2] = "gz" THEN ".sql.gz" ELSE ".sql">>

\* create_full_backup, up to the provisional record
FullBackupBegin(o) ==
    /\ pc = "idle"
    /\ n_backups < MaxBackups
    /\ LET id == n_backups + 1
           r == create_backup_record(backups, id, RunningFull(now), o)
       IN  /\ backups' = r.backups
           /\ n_backups' = id
           /\ cur' = [NoLocals EXCEPT !.id = id, !.start = now, !.tool = TRUE]
           /\ pc' = IF r.raised THEN "fb_except" ELSE "fb_dump"
    /\ UNCHANGED sched
    /\ UNCHANGED <<wals, restores, store, now, fk_enforced, b_temp, r_temp,
                   r_conn, n_restores>>

\* _execute_pg_dump: the file, or None on timeout, non-zero exit, empty output
execute_pg_dump(temp, d, c) == IF temp /\ d = "ok" THEN <<c, "plain">> ELSE NullFile

FullBackupDump(d, c) ==
    /\ pc = "fb_dump"
    /\ LET f == execute_pg_dump(b_temp, d, c)
       IN  /\ cur' = [cur EXCEPT !.file = f,
                                 !.failed_step = IF f = NullFile THEN "dump" ELSE @]
           /\ pc' = IF f = NullFile THEN "fb_except" ELSE "fb_compress"
    /\ UNCHANGED sched
    /\ UNCHANGED <<backups, wals, restores, store, now, fk_enforced, b_temp,
                   r_temp, r_conn, n_backups, n_restores>>

\* a faulty variant: a failed compression raises
AfterCompress_Abort(ok) == IF ok THEN "fb_upload" ELSE "fb_except"

\* where create_full_backup goes after compress_file returned ok: a failure
\* is logged as a warning and the upload follows either way
AfterCompress(ok) == "fb_upload"

\* compression: on failure the original file is kept
FullBackupCompress(ok) ==
    /\ pc = "fb_compress"
    /\ cur' = [cur EXCEPT !.file = IF ok THEN compress_file(@) ELSE @]
    /\ pc' = AfterCompress(ok)
    /\ UNCHANGED sched
    /\ UNCHANGED <<backups, wals, restores, store, now, fk_enforced, b_temp,
                   r_temp, r_conn, n_backups, n_restores>>

FullBackupUpload(o) ==
    /\ pc = "fb_upload"
    /\ LET u == upload_file(store, cur.file, "full",
                            BackupFilename(cur.id, cur.file), now, o)
       IN  /\ store' = u.store
           /\ cur' = [cur EXCEPT !.key = u.key,
                                 !.sum = calculate_checksum(cur.file),
                                 !.failed_step = IF u.ok THEN @ ELSE "upload"]
           /\ pc' = IF u.ok THEN "fb_finalize" ELSE "fb_except"
    /\ UNCHANGED sched
    /\ UNCHANGED <<backups, wals, restores, now, fk_enforced, b_temp, r_temp,
                   r_conn, n_backups, n_restores>>

\* the success path: update to completed, return (True, backup_id), cleanup
FullBackupFinalize(o, removed) ==
    /\ pc = "fb_finalize"
    /\ LET r == update_backup_status(backups, cur.id, "completed",
                                     cur.key, cur.sum, o)
       IN  /\ backups' = r.backups
           /\ IF r.ret = "raised"
              THEN /\ pc' = "fb_except"
                   /\ UNCHANGED <<cur, b_temp>>
              ELSE /\ pc' = "returned"
                   /\ cur' = Result("full", cur, "success")
                   /\ b_temp' = cleanup_temp_files(b_temp, removed)
    /\ UNCHANGED sched
    /\ UNCHANGED <<wals, restores, store, now, fk_enforced, r_temp, r_conn,
                   n_backups, n_restores>>

\* the except path: update to failed, return (False, reason), cleanup
FullBackupExcept(o, removed) ==
    /\ pc = "fb_except"
    /\ LET r == update_backup_status(backups, cur.id, "failed",
                                     NullKey, NullSum, o)
       IN  /\ backups' = r.backups
           /\ cur' = Result("full", cur,
                              IF r.ret = "raised" THEN "raised" ELSE "failure")
    /\ pc' = "returned"
    /\ b_temp' = cleanup_temp_files(b_temp, removed)
    /\ UNCHANGED sched
    /\ UNCHANGED <<wals, restores, store, now, fk_enforced, r_temp, r_conn,
                   n_backups, n_restores>>

\* ------------------------------------------------------------- incremental
\* the bytes of WAL segment w in the archive directory
WalFile(w) == <<w, "wal">>

\* the length _get_wal_files asks of a file name
WalNameLen == 24

Zeros(n) == [i \in 1..n |-> "0"]
GzSuffix == <<".", "g", "z">>

\* the files the archive directory may hold, by the characters of their names:
\* two names of hexadecimal digits, one with another character, and the name
\* PostgreSQL gives a segment (24 hexadecimal digits), compressed; and a name
\* of hexadecimal digits with a digit set in its fifth place
FileChars ==
    [zero |-> Zeros(WalNameLen - 3) \o GzSuffix,
     lo   |-> Zeros(WalNameLen - 4) \o <<"1">> \o GzSuffix,
     x1   |-> Zeros(WalNameLen - 4) \o <<"z">> \o GzSuffix,
     real |-> Zeros(WalNameLen - 1) \o <<"1">> \o GzSuffix,
     hi   |-> Zeros(4) \o <<"1">> \o Zeros(WalNameLen - 8) \o GzSuffix]

\* the names of a directory whose segments are numbered from zero
WalNames == {"zero", "lo", "x1", "real"}

\* a directory of any names
AnyListings == {S \in SUBSET DOMAIN FileChars : Cardinality(S) <= MaxWal}

\* the listings of the archive directory
Listings == {S \in SUBSET WalNames : Cardinality(S) <= MaxWal}

\* the characters cs numbered from first on
CodeRun(cs, first) ==
    [c \in {cs[i] : i \in 1..Len(cs)} |->
        first - 1 + CHOOSE i \in 1..Len(cs) : cs[i] = c]

DecimalDigits == <<"0", "1", "2", "3", "4", "5", "6", "7", "8", "9">>

\* the code points str comparison goes by
Ord ==
    CodeRun(<<".">>, 46) @@ CodeRun(DecimalDigits, 48)
    @@ CodeRun(<<"A", "B", "C", "D", "E", "F">>, 65)
    @@ CodeRun(<<"a", "b", "c", "d", "e", "f", "g">>, 97)
    @@ CodeRun(<<"z">>, 122)

\* the digits int(s, 16) reads, in either case
HexDigits ==
    CodeRun(DecimalDigits, 0)
    @@ CodeRun(<<"A", "B", "C", "D", "E", "F">>, 10)
    @@ CodeRun(<<"a", "b", "c", "d", "e", "f">>, 10)

StartsWith(chars, c) == Len(chars) >= 1 /\ chars[1] = c

EndsWith(chars, suffix) ==
    /\ Len(chars) >= Len(suffix)
    /\ SubSeq(chars, Len(chars) - Len(suffix) + 1, Len(chars)) = suffix

\* str.split('.')[0]: the characters before the first dot
BeforeDot(chars) ==
    LET dots == {i \in 1..Len(chars) : chars[i] = "."}
    IN  IF dots = {} THEN chars
        ELSE SubSeq(chars, 1, (CHOOSE i \in dots : \A j \in dots : i <= j) - 1)

IsHex(chars) == chars # <<>> /\ \A i \in 1..Len(chars) : chars[i] \in DOMAIN HexDigits

\* an integer of any size: its hexadecimal digits without leading zeros
\* (zero has none)
RECURSIVE Numeral(_)
Numeral(digits) ==
    IF digits = <<>> THEN <<>>
    ELSE IF Head(digits) = 0 THEN Numeral(Tail(digits))
    ELSE digits

\* int(s, 16) of a string of hexadecimal digits
HexInt(chars) == Numeral([i \in 1..Len(chars) |-> HexDigits[chars[i]]])

RECURSIVE SeqLess(_, _)
SeqLess(a, b) ==
    IF b = <<>> THEN FALSE
    ELSE IF a = <<>> THEN TRUE
    ELSE IF Head(a) # Head(b) THEN Head(a) < Head(b)
    ELSE SeqLess(Tail(a), Tail(b))

\* m < n for integers given by their numerals
IntLess(m, n) == Len(m) < Len(n) \/ (Len(m) = Len(n) /\ SeqLess(m, n))

\* the value fits a signed 64-bit column: at most 7FFFFFFFFFFFFFFF
FitsBigint(n) == Len(n) < 16 \/ (Len(n) = 16 /\ n[1] <= 7)

\* str < str: by code points
StrLess(a, b) ==
    SeqLess([i \in 1..Len(a) |-> Ord[a[i]]], [i \in 1..Len(b) |-> Ord[b[i]]])

\* _extract_wal_sequence: the part of the name before the first dot read as a
\* hexadecimal integer, 0 when it is not one
extract_wal_sequence(w) ==
    LET name_part == BeforeDot(FileChars[w])
    IN  IF IsHex(name_part) THEN HexInt(name_part) ELSE <<>>

\* the test of _get_wal_files on a file name
IsWalFile(w) ==
    /\ StartsWith(FileChars[w], "0")
    /\ Len(FileChars[w]) = WalNameLen
    /\ EndsWith(FileChars[w], GzSuffix)

\* _get_wal_files: the matching files of the directory, sorted by name
RECURSIVE SortedNames(_)
SortedNames(files) ==
    IF files = {} THEN <<>>
    ELSE LET w == CHOOSE x \in files :
                      \A y \in files \ {x} : StrLess(FileChars[x], FileChars[y])
         IN  <<w>> \o SortedNames(files \ {w})

get_wal_files(files) == SortedNames({w \in files : IsWalFile(w)})

\* MetadataManager.create_wal_record: INSERT or raise; the store rejects a
\* parent identifier without a row when it enforces the reference
create_wal_record(ws, bk, row, o) ==
    IF /\ o = "ok"
       /\ fk_enforced => bk[row.backup_id].status # "absent"
       /\ FitsBigint(row.sequence_number)
    THEN [raised |-> FALSE, wals |-> ws \cup {row}]
    ELSE [raised |-> TRUE, wals |-> ws]

CompletedIncremental(start) ==
    [backup_type |-> "incremental", status |-> "completed", start_ts |-> start,
     s3_key |-> NullKey, checksum |-> NullSum,
     compression |-> "NULL", encryption |-> "NULL"]

\* create_incremental_backup, up to the list of segments; with no segment it
\* returns (False, reason) at once
IncrementalBegin(files, removed) ==
    /\ pc = "idle"
    /\ n_backups < MaxBackups
    /\ n_backups' = n_backups + 1
    /\ LET c == [NoLocals EXCEPT !.id = n_backups + 1, !.start = now,
                                 !.todo = get_wal_files(files)]
       IN  IF c.todo = <<>>
           THEN /\ pc' = "returned"
                /\ cur' = Result("incremental", c, "failure")
                /\ b_temp' = cleanup_temp_files(b_temp, removed)
           ELSE /\ pc' = "ib_loop"
                /\ cur' = c
                /\ UNCHANGED b_temp
    /\ UNCHANGED sched
    /\ UNCHANGED <<backups, wals, restores, store, now, fk_enforced, r_temp,
                   r_conn, n_restores>>

\* the bytes of a file after another process wrote to it
Rewritten(file) == <<file[1], "rewritten">>

\* one segment of the batch: upload, then the WalSegmentRecord; a failure of
\* either is logged and the batch goes on. The record's checksum is computed
\* from the file once more after the upload returned; changed says another
\* process wrote to the file in between
IncrementalSegmentOn(o, l, changed) ==
    /\ pc = "ib_loop"
    /\ cur.todo # <<>>
    /\ LET w == Head(cur.todo)
           u == upload_file(store, WalFile(w), "incremental", w, now, o)
           reread == IF changed THEN Rewritten(WalFile(w)) ELSE WalFile(w)
           row == [wal_name |-> w, backup_id |-> cur.id, end_ts |-> now,
                   s3_key |-> u.key, checksum |-> calculate_checksum(reread),
                   sequence_number |-> extract_wal_sequence(w)]
           r == IF u.ok THEN create_wal_record(wals, backups, row, l)
                        ELSE [raised |-> TRUE, wals |-> wals]
       IN  /\ store' = u.store
           /\ wals' = r.wals
           /\ cur' = [cur EXCEPT !.todo = Tail(@),
                                 !.sent = IF u.ok THEN @ + 1 ELSE @,
                                 !.uploaded = IF r.raised THEN @ ELSE @ + 1]
    /\ UNCHANGED sched
    /\ UNCHANGED <<backups, restores, now, fk_enforced, b_temp, r_temp, r_conn,
                   n_backups, n_restores, pc>>

\* one segment over an archive directory no other process writes to
IncrementalSegment(o, l) == IncrementalSegmentOn(o, l, FALSE)

\* a faulty variant: an empty batch is not noticed
NoneProcessed_Never(uploaded) == FALSE

\* if not uploaded_wals: no segment of the batch was uploaded and recorded
NoneProcessed(uploaded) == uploaded = 0

\* after the batch: the marker record, or failure when nothing was uploaded
IncrementalFinish(o, removed) ==
    /\ pc = "ib_loop"
    /\ cur.todo = <<>>
    /\ LET r == IF NoneProcessed(cur.uploaded)
                THEN [raised |-> TRUE, backups |-> backups]
                ELSE create_backup_record(backups, cur.id,
                                          CompletedIncremental(cur.start), o)
       IN  /\ backups' = r.backups
           /\ cur' = Result("incremental", cur,
                             IF r.raised THEN "failure" ELSE "success")
    /\ pc' = "returned"
    /\ b_temp' = cleanup_temp_files(b_temp, removed)
    /\ UNCHANGED sched
    /\ UNCHANGED <<wals, restores, store, now, fk_enforced, r_temp, r_conn,
                   n_backups, n_restores>>

\* ------------------------------------------------------------- restore
\* RestoreEngine.__init__
NewRestoreEngine ==
    /\ pc = "idle"
    /\ r_temp' = TRUE
    /\ r_conn' = TRUE
    /\ UNCHANGED sched
    /\ UNCHANGED <<backups, wals, restores, store, now, fk_enforced, b_temp,
                   n_backups, n_restores, pc, cur>>

\* a read of the ledger gives its rows when the statement runs
ReadOk(o) == o = "ok"

\* a method whose finally block tests a cursor that was never bound raises
\* when _get_connection itself raised: the connection was closed and the
\* store cannot be reached
ConnectRaises(conn, o) == ~conn /\ o = "unreachable"

\* a faulty variant: ORDER BY start_ts without DESC, the oldest row
get_latest_backup_Oldest(bk, backup_type) ==
    LET rows == {i \in DOMAIN bk : bk[i].backup_type = backup_type
                                   /\ bk[i].status = "completed"}
    IN  {i \in rows : \A j \in rows : bk[i].start_ts <= bk[j].start_ts}

\* MetadataManager.get_latest_backup: the rows it may return, ORDER BY start_ts
\* DESC LIMIT 1 among the rows of the type with status completed
get_latest_backup(bk, backup_type) ==
    LET rows == {i \in DOMAIN bk : bk[i].backup_type = backup_type
                                   /\ bk[i].status = "completed"}
    IN  {i \in rows : \A j \in rows : bk[j].start_ts <= bk[i].start_ts}

\* MetadataManager.get_backup_by_id: the identifier when a row has it
get_backup_by_id(bk, id) == {i \in DOMAIN bk : i = id /\ bk[i].status # "absent"}

\* MetadataManager.create_restore_record: INSERT or raise
create_restore_record(rs, id, row, o) ==
    IF o = "ok" /\ rs[id].status = "absent"
    THEN [raised |-> FALSE, restores |-> [rs EXCEPT ![id] = row]]
    ELSE [raised |-> TRUE, restores |-> rs]

\* RestoreEngine._update_restore_status: "true", "false" or "raised"
update_restore_status(rs, conn, id, status, err, o) ==
    IF ConnectRaises(conn, o)
    THEN [ret |-> "raised", restores |-> rs]
    ELSE IF o = "ok"
    THEN [ret |-> "true",
          restores |-> [i \in DOMAIN rs |->
                           IF i = id /\ rs[i].status # "absent"
                           THEN [rs[i] EXCEPT !.status = status,
                                              !.error_message =
                                                  IF err = "NULL" THEN @ ELSE err]
                           ELSE rs[i]]]
    ELSE [ret |-> "false", restores |-> rs]

\* restore_backup, the choice of the base: the given identifier, or the latest
\* completed full backup
RestoreBegin(backup_id, target_time, o) ==
    /\ pc = "idle"
    /\ n_restores < MaxRestores
    /\ n_restores' = n_restores + 1
    /\ LET c == [NoLocals EXCEPT !.id = n_restores + 1, !.target = target_time]
           found == IF ReadOk(o) THEN get_latest_backup(backups, "full") ELSE {}
       IN  IF backup_id # NoId
           THEN /\ cur' = [c EXCEPT !.base = backup_id, !.given = TRUE]
                /\ pc' = "rs_lookup"
                /\ UNCHANGED r_conn
           ELSE /\ r_conn' = ConnAfter(o)
                /\ IF found = {}
                   THEN /\ cur' = [c EXCEPT !.failed_step = "resolve"]
                        /\ pc' = "rs_except"
                   ELSE /\ \E b \in found : cur' = [c EXCEPT !.base = b]
                        /\ pc' = "rs_lookup"
    /\ UNCHANGED sched
    /\ UNCHANGED <<backups, wals, restores, store, now, fk_enforced, b_temp,
                   r_temp, n_backups>>

\* a faulty variant: the replay runs whatever the target
WantsReplay_Always(target) == TRUE

\* a faulty variant: the status of the base's row is not looked at
UsableBase_AnyStatus(bk, found, id) == found # {}

\* the checks on the base's row: it exists and its status is completed
UsableBase(bk, found, id) == found # {} /\ bk[id].status = "completed"

\* the base's row must exist and be completed; then the destination directory
\* and the running RestoreOperationRecord
RestoreLookup(o, mkdir_ok, l) ==
    /\ pc = "rs_lookup"
    /\ LET found == IF ReadOk(o) THEN get_backup_by_id(backups, cur.base) ELSE {}
           usable == UsableBase(backups, found, cur.base)
           r == create_restore_record(restores, cur.id,
                    [backup_id |-> cur.base, status |-> "running",
                     error_message |-> "NULL"], l)
       IN  IF ~usable
           THEN /\ cur' = [cur EXCEPT !.failed_step = "resolve"]
                /\ pc' = "rs_except"
                /\ r_conn' = ConnAfter(o)
                /\ UNCHANGED restores
           ELSE IF ~mkdir_ok
           THEN /\ cur' = [cur EXCEPT !.failed_step = "destination"]
                /\ pc' = "rs_except"
                /\ r_conn' = ConnAfter(o)
                /\ UNCHANGED restores
           ELSE /\ restores' = r.restores
                /\ r_conn' = ConnAfter(l)
                /\ cur' = [cur EXCEPT !.failed_step =
                                          IF r.raised THEN "record" ELSE @]
                /\ pc' = IF r.raised THEN "rs_except" ELSE "rs_download"
    /\ UNCHANGED sched
    /\ UNCHANGED <<backups, wals, store, now, fk_enforced, b_temp, r_temp,
                   n_backups, n_restores>>

DownloadOutcomes == {"ok", "corrupt", "fail"}

\* the bytes a download of the object writes to the local path
Transferred(obj, d) == IF d = "corrupt" THEN Damaged(obj.data) ELSE obj.data

\* a faulty variant: the checksum metadata is never looked at
HasChecksum_Never(meta) == FALSE

\* if expected_checksum: the object carries checksum metadata
HasChecksum(meta) == meta # NullSum

\* S3Client.download_file: the local file, or none when the object is missing,
\* the transfer fails, or the bytes do not match the object's checksum
\* metadata; an object without checksum metadata is not verified
download_file(s, key, temp, d) ==
    IF key \notin DOMAIN s \/ ~temp \/ d = "fail"
    THEN NullFile
    ELSE LET got == Transferred(s[key], d)
         IN  IF HasChecksum(s[key].meta) /\ ~verify_checksum(got, s[key].meta)
             THEN NullFile
             ELSE got

\* a faulty variant: the download is not compared with the record
ChecksumInvalid_Never(got, expected) == FALSE

\* if expected_checksum: if not verify_checksum(local_path, expected_checksum)
ChecksumInvalid(got, expected) ==
    expected # NullSum /\ ~verify_checksum(got, expected)

\* RestoreEngine._download_backup_file: download, then the check against the
\* checksum of the BackupRecord
download_backup_file(s, row, temp, d) ==
    IF row.s3_key = NullKey
    THEN NullFile
    ELSE LET got == download_file(s, row.s3_key, temp, d)
         IN  IF got = NullFile THEN NullFile
             ELSE IF ChecksumInvalid(got, row.checksum)
             THEN NullFile
             ELSE got

\* the local file name ends in .gz
EndsWithGz(key) == key[4][2] = ".sql.gz"

RestoreDownload(d) ==
    /\ pc = "rs_download"
    /\ LET row == backups[cur.base]
           got == download_backup_file(store, row, r_temp, d)
       IN  /\ cur' = [cur EXCEPT !.file = got,
                                 !.downloaded = row.s3_key # NullKey,
                                 !.failed_step = IF got = NullFile THEN "download" ELSE @]
           /\ pc' = IF got = NullFile THEN "rs_except"
                    ELSE IF EndsWithGz(row.s3_key) THEN "rs_decompress"
                    ELSE "rs_apply"
    /\ UNCHANGED sched
    /\ UNCHANGED <<backups, wals, restores, store, now, fk_enforced, b_temp,
                   r_temp, r_conn, n_backups, n_restores>>

RestoreDecompress(ok) ==
    /\ pc = "rs_decompress"
    /\ cur' = [cur EXCEPT !.file = IF ok THEN decompress_file(@) ELSE @,
                          !.failed_step = IF ok THEN @ ELSE "decompress"]
    /\ pc' = IF ok THEN "rs_apply" ELSE "rs_except"
    /\ UNCHANGED sched
    /\ UNCHANGED <<backups, wals, restores, store, now, fk_enforced, b_temp,
                   r_temp, r_conn, n_backups, n_restores>>

\* if target_time: the replay is asked for
WantsReplay(target) == target # NoTarget

\* _restore_base_backup: the restore tool, False on non-zero exit or timeout
RestoreApply(t) ==
    /\ pc = "rs_apply"
    /\ cur' = [cur EXCEPT !.tool = TRUE,
                          !.failed_step = IF t = "ok" THEN @ ELSE "apply"]
    /\ pc' = IF t # "ok" THEN "rs_except"
             ELSE IF WantsReplay(cur.target) THEN "rs_wal"
             ELSE "rs_recovery"
    /\ UNCHANGED sched
    /\ UNCHANGED <<backups, wals, restores, store, now, fk_enforced, b_temp,
                   r_temp, r_conn, n_backups, n_restores>>

\* MetadataManager.get_wals_for_backup: the orders ORDER BY sequence_number
\* may give the rows of the backup
get_wals_for_backup(ws, id) ==
    LET rows == {w \in ws : w.backup_id = id}
        n == Cardinality(rows)
    IN  {q \in [1..n -> rows] :
            /\ \A i, j \in 1..n : i # j => q[i] # q[j]
            /\ \A i, j \in 1..n :
                  i < j => ~IntLess(q[j].sequence_number, q[i].sequence_number)}

\* _apply_wal_files, the list of segments: none when the read fails
RestoreWalList(o) ==
    /\ pc = "rs_wal"
    /\ \E q \in IF ReadOk(o) THEN get_wals_for_backup(wals, cur.base) ELSE {<<>>} :
          /\ cur' = [cur EXCEPT !.todo = q]
          /\ pc' = IF q = <<>> THEN "rs_recovery" ELSE "rs_wal_loop"
    /\ r_conn' = ConnAfter(o)
    /\ UNCHANGED sched
    /\ UNCHANGED <<backups, wals, restores, store, now, fk_enforced, b_temp,
                   r_temp, n_backups, n_restores>>

\* wal_time > target_dt: the end_ts column is a timestamp with time zone, and
\* comparing it with a timestamp without offset raises TypeError
IsAfterTarget(end_ts, target) ==
    IF target.tz = "naive" THEN "TypeError"
    ELSE IF end_ts > target.day THEN "after"
    ELSE "not_after"

\* one segment: a failed download skips it before its time is looked at, an
\* interval end after the target ends the replay, an exception skips the
\* segment, otherwise the apply tool runs
RestoreWalSegment(d, t) ==
    /\ pc = "rs_wal_loop"
    /\ LET w == Head(cur.todo)
           got == download_file(store, w.s3_key, r_temp, d)
           cmp == IsAfterTarget(w.end_ts, cur.target)
           rest == IF got # NullFile /\ cmp = "after"
                   THEN <<>> ELSE Tail(cur.todo)
           applies == got # NullFile /\ cmp = "not_after" /\ t = "ok"
       IN  /\ cur' = [cur EXCEPT !.todo = rest,
                                 !.fetched = IF got # NullFile THEN Append(@, w.wal_name) ELSE @,
                                 !.applied = IF applies THEN Append(@, w.wal_name) ELSE @]
           /\ pc' = IF rest = <<>> THEN "rs_recovery" ELSE "rs_wal_loop"
    /\ UNCHANGED sched
    /\ UNCHANGED <<backups, wals, restores, store, now, fk_enforced, b_temp,
                   r_temp, r_conn, n_backups, n_restores>>

\* _setup_recovery_config: an error writing recovery.conf is logged and swallowed
RestoreRecovery(ok) ==
    /\ pc = "rs_recovery"
    /\ cur' = [cur EXCEPT !.failed_step = IF ok THEN @ ELSE "recovery"]
    /\ pc' = "rs_finalize"
    /\ UNCHANGED sched
    /\ UNCHANGED <<backups, wals, restores, store, now, fk_enforced, b_temp,
                   r_temp, r_conn, n_backups, n_restores>>

\* the success path: update to completed, return (True, restore_id), cleanup
RestoreFinalize(o, removed) ==
    /\ pc = "rs_finalize"
    /\ LET r == update_restore_status(restores, r_conn, cur.id, "completed",
                                      "NULL", o)
       IN  /\ restores' = r.restores
           /\ IF r.ret = "raised"
              THEN /\ pc' = "rs_except"
                   /\ UNCHANGED <<cur, r_temp>>
              ELSE /\ pc' = "returned"
                   /\ cur' = Result("restore", cur, "success")
                   /\ r_temp' = cleanup_temp_files(r_temp, removed)
    /\ r_conn' = ConnAfter(o)
    /\ UNCHANGED sched
    /\ UNCHANGED <<backups, wals, store, now, fk_enforced, b_temp, n_backups,
                   n_restores>>

\* the except path: update to failed with the error, return (False, reason)
RestoreExcept(o, removed) ==
    /\ pc = "rs_except"
    /\ LET r == update_restore_status(restores, r_conn, cur.id, "failed",
                                      "error", o)
       IN  /\ restores' = r.restores
           /\ cur' = Result("restore", cur,
                             IF r.ret = "raised" THEN "raised" ELSE "failure")
    /\ pc' = "returned"
    /\ r_temp' = cleanup_temp_files(r_temp, removed)
    /\ r_conn' = ConnAfter(o)
    /\ UNCHANGED sched
    /\ UNCHANGED <<backups, wals, store, now, fk_enforced, b_temp, n_backups,
                   n_restores>>

\* ------------------------------------------------------------- prune
\* what dropping the UTC offsets costs, in whole days: the age is taken
\* between datetime.now(), local time, and start_ts as the ledger's session
\* returns it, both with their offset removed and not converted. With the
\* local zone behind the session's by some hours, the difference falls short
\* of the age by those hours and its .days by one day
ZoneSkews == {-1, 0}

\* .days of the difference of the two naive timestamps
backup_age(row, t, skew) == (t - row.start_ts) + skew

should_prune(row, t, skew) ==
    \/ row.backup_type = "full" /\ backup_age(row, t, skew) > FullDays
    \/ row.backup_type = "incremental" /\ backup_age(row, t, skew) > IncrementalDays

PruneCandidates(bk, listed, t, skew) == {i \in listed : should_prune(bk[i], t, skew)}

\* a faulty variant: the deletes are issued in a dry run too
PruneDeletes_Always(bk, cand, dry_run) ==
    {bk[i].s3_key : i \in {j \in cand : bk[j].s3_key # NullKey}}

\* the keys whose delete is issued
PruneDeletes(bk, cand, dry_run) ==
    IF dry_run THEN {} ELSE {bk[i].s3_key : i \in {j \in cand : bk[j].s3_key # NullKey}}

\* one pass of the prune loop over the listed records: the report and the
\* deletes handed to the store
PruneRun(bk, listed, t, skew, dry_run) ==
    LET cand == PruneCandidates(bk, listed, t, skew)
    IN  [listed |-> listed, candidates |-> cand,
         deletes |-> PruneDeletes(bk, cand, dry_run)]

\* cli prune: gone is the set of keys whose delete the store carried out
Prune(dry_run, o, skew) ==
    /\ pc = "idle"
    /\ LET run == PruneRun(backups, list_backups(backups, o), now, skew, dry_run)
       IN  /\ \E gone \in SUBSET run.deletes :
                  store' = [k \in DOMAIN store \ gone |-> store[k]]
           /\ cur' = [Result("prune", NoLocals, "success")
                          EXCEPT !.listed = run.listed,
                                 !.candidates = run.candidates,
                                 !.deletes = run.deletes,
                                 !.dry_run = dry_run]
    /\ pc' = "returned"
    /\ UNCHANGED sched
    /\ UNCHANGED <<backups, wals, restores, now, fk_enforced, b_temp, r_temp,
                   r_conn, n_backups, n_restores>>

\* the caller takes the result; nothing is in flight
Return ==
    /\ pc = "returned"
    /\ pc' = "idle"
    /\ cur' = NoLocals
    /\ UNCHANGED sched
    /\ UNCHANGED <<backups, wals, restores, store, now, fk_enforced, b_temp,
                   r_temp, r_conn, n_backups, n_restores>>

\* ------------------------------------------------------------- properties
RestorePcs ==
    {"rs_lookup", "rs_download", "rs_decompress", "rs_apply", "rs_wal",
     "rs_wal_loop", "rs_recovery", "rs_finalize", "rs_except"}

PastLookupPcs ==
    {"rs_download", "rs_decompress", "rs_apply", "rs_wal", "rs_wal_loop",
     "rs_recovery", "rs_finalize"}

Returned(op) == pc = "returned" /\ cur.op = op

\* C1: every BackupRecord with status completed has a remote key that names
\* an object present in the object store, and the checksum of that object's
\* bytes equals the record's checksum.
C1_CompletedRetrievable ==
    \A i \in BackupIds :
        backups[i].status = "completed" =>
            /\ backups[i].s3_key \in DOMAIN store
            /\ calculate_checksum(store[backups[i].s3_key].data) = backups[i].checksum

\* C2: when create_full_backup returns, the BackupRecord it wrote as running
\* is completed or failed, whatever the outcome of its steps.
C2_FullBackupFinalized ==
    (Returned("full") /\ backups[cur.id].status # "absent")
        => backups[cur.id].status \in {"completed", "failed"}

\* C3: create_full_backup returns success only if the ledger holds the record
\* with the returned identifier in status completed.
C3_SuccessMeansCompleted ==
    (Returned("full") /\ cur.ret = "success")
        => backups[cur.id].status = "completed"

\* C4: create_full_backup, create_incremental_backup and restore_backup always
\* return a (success, detail) pair: no exception leaves any of them.
C4_NoExceptionEscapes ==
    (pc = "returned" /\ cur.op \in {"full", "incremental", "restore"})
        => cur.ret # "raised"

\* C5: a BackupRecord's status changes only from running to completed or from
\* running to failed; a completed or failed record keeps its status.
C5_StatusTransitions ==
    [][\A i \in BackupIds :
          /\ backups[i].status \in {"completed", "failed"}
                => backups'[i].status = backups[i].status
          /\ backups[i].status = "running"
                => backups'[i].status \in {"running", "completed", "failed"}]_vars

\* a full backup moved its record from running to completed, and a record
\* that had reached failed before is in the ledger
C5_Witness ==
    /\ Returned("full")
    /\ backups[cur.id].status = "completed"
    /\ \E j \in BackupIds : backups[j].status = "failed"

C7_RestoreFinalized ==
    Returned("restore") =>
        /\ restores[cur.id].status # "running"
        /\ cur.ret = "success" => restores[cur.id].status = "completed"

\* C8: if the download or checksum check of the base artifact, its
\* decompression, the restore tool, or the writing of the recovery directives
\* fails, the RestoreOperationRecord is finalized as failed with an error
\* detail and restore_backup returns failure.
C8_StepFailureFailsRestore ==
    (Returned("restore")
        /\ cur.failed_step \in {"download", "decompress", "apply", "recovery"})
        => /\ cur.ret = "failure"
           /\ restores[cur.id].status = "failed"
           /\ restores[cur.id].error_message # "NULL"

\* C9: restore_backup fails when no base can be resolved or the base's record
\* is not completed: it goes past the resolution only with a completed base,
\* and after a failed resolution it does not return success, nothing was
\* downloaded, no restore tool ran, and no RestoreOperationRecord of the
\* restore is running.
C9_UnusableBaseFails ==
    /\ pc \in PastLookupPcs => backups[cur.base].status = "completed"
    /\ (Returned("restore") /\ cur.ret = "success")
           => backups[cur.base].status = "completed"
    /\ (Returned("restore") /\ cur.failed_step = "resolve")
           => /\ cur.ret # "success"
              /\ ~cur.downloaded
              /\ ~cur.tool
              /\ restores[cur.id].status # "running"

\* a restore given the identifier of a record that is running or failed has
\* returned
C9_Witness ==
    /\ Returned("restore")
    /\ cur.failed_step = "resolve"
    /\ cur.given
    /\ backups[cur.base].status \in {"running", "failed"}

\* C10: without a base-backup identifier, the base restore_backup uses is a
\* record of kind full with status completed whose start time is the latest
\* among such records.
C10_LatestCompletedFull ==
    (pc \in RestorePcs /\ ~cur.given /\ cur.base # NoId)
        => /\ backups[cur.base].backup_type = "full"
           /\ backups[cur.base].status = "completed"
           /\ \A j \in BackupIds :
                 (backups[j].backup_type = "full" /\ backups[j].status = "completed")
                     => backups[j].start_ts <= backups[cur.base].start_ts

\* the base was resolved while an older completed full backup was in the ledger
C10_Witness ==
    /\ pc = "rs_lookup"
    /\ ~cur.given
    /\ \E j \in BackupIds :
          /\ backups[j].backup_type = "full"
          /\ backups[j].status = "completed"
          /\ backups[j].start_ts < backups[cur.base].start_ts

\* the WalSegmentRecord of the base with the name
SegmentOf(name) ==
    CHOOSE r \in wals : r.backup_id = cur.base /\ r.wal_name = name

BaseSegments == {r \in wals : r.backup_id = cur.base}

C16_NoTargetNoWal ==
    ((pc \in RestorePcs \/ Returned("restore")) /\ cur.target = NoTarget)
        => /\ pc \notin {"rs_wal", "rs_wal_loop"}
           /\ cur.fetched = <<>>
           /\ cur.applied = <<>>

\* a restore without target has returned success over a ledger that holds
\* segments for its base
C16_Witness ==
    /\ Returned("restore")
    /\ cur.ret = "success"
    /\ cur.target = NoTarget
    /\ BaseSegments # {}

C20_OneUploadSuffices ==
    (Returned("incremental") /\ cur.sent >= 1)
        => /\ cur.ret = "success"
           /\ backups[cur.id].backup_type = "incremental"
           /\ backups[cur.id].status = "completed"

\* C21: if no segment of the batch is uploaded successfully, or no segment is
\* available, create_incremental_backup returns (False, reason) and the ledger
\* gains no BackupRecord with status completed.
C21_NoUploadFails ==
    /\ (pc = "ib_loop" /\ cur.sent = 0) => backups[cur.id].status = "absent"
    /\ (Returned("incremental") /\ cur.sent = 0)
           => /\ cur.ret = "failure"
              /\ backups[cur.id].status = "absent"

\* an incremental backup has returned failure after a transfer that left its
\* object in the bucket but did not verify
C21_Witness ==
    /\ Returned("incremental")
    /\ cur.sent = 0
    /\ cur.ret = "failure"
    /\ \E k \in DOMAIN store : k[2] = "incremental"

\* C22: when create_full_backup, create_incremental_backup or restore_backup
\* has returned, on any path, the temporary work area of its engine does not
\* exist.
C22_WorkAreaRemoved ==
    /\ (pc = "returned" /\ cur.op \in {"full", "incremental"}) => ~b_temp
    /\ Returned("restore") => ~r_temp

\* the objects in the bucket that a full backup with the identifier uploaded
UploadedBy(id) == {k \in DOMAIN store : k[2] = "full" /\ k[4][1] = id}

\* C23: if the dump tool times out, exits non-zero or leaves no usable output
\* file, create_full_backup uploads nothing, moves its BackupRecord from
\* running to failed and returns (False, reason).
C23_DumpFailureFails ==
    (Returned("full") /\ cur.failed_step = "dump")
        => /\ UploadedBy(cur.id) = {}
           /\ backups[cur.id].status = "failed"
           /\ cur.ret = "failure"

\* C24: if the provisional running BackupRecord cannot be written,
\* create_full_backup returns (False, reason), and during the operation no
\* external tool ran and nothing was uploaded.
C24_RecordFailureAbortsEarly ==
    (Returned("full") /\ backups[cur.id].status = "absent")
        => /\ cur.ret = "failure"
           /\ ~cur.tool
           /\ UploadedBy(cur.id) = {}

\* the key upload_file gives the artifact of the full backup in flight
ArtifactKey == get_s3_key("full", now, BackupFilename(cur.id, cur.file))

\* C25: upload_file returns success only if the object read back from the
\* store after the transfer has the checksum of the local file; on a mismatch
\* it returns failure and the transferred object stays in the store.
C25_UploadVerified ==
    [][pc = "fb_upload"
          => /\ pc' = "fb_finalize"
                   => /\ cur'.key = ArtifactKey
                      /\ ArtifactKey \in DOMAIN store'
                      /\ calculate_checksum(store'[ArtifactKey].data)
                             = calculate_checksum(cur.file)
             /\ (/\ ArtifactKey \in DOMAIN store'
                 /\ calculate_checksum(store'[ArtifactKey].data)
                        # calculate_checksum(cur.file))
                   => /\ pc' = "fb_except"
                      /\ cur'.key = NullKey]_vars

\* an upload has failed on the verification of bytes damaged in transfer,
\* and the damaged object is in the bucket
C25_Witness ==
    /\ pc = "fb_except"
    /\ cur.failed_step = "upload"
    /\ \E k \in UploadedBy(cur.id) :
          calculate_checksum(store[k].data) # cur.sum

\* C26: download_file returns failure and leaves no local file when the
\* object's checksum metadata does not match the downloaded bytes, and returns
\* success with the downloaded bytes when the object has no checksum metadata.
C26_DownloadFailsClosed ==
    \A key \in DOMAIN store :
        \A d \in DownloadOutcomes \ {"fail"} :
            LET obj == store[key]
                got == download_file(store, key, TRUE, d)
            IN  /\ (/\ obj.meta # NullSum
                    /\ calculate_checksum(Transferred(obj, d)) # obj.meta)
                      => got = NullFile
                /\ obj.meta = NullSum => got = Transferred(obj, d)

\* a restore has returned success over a base artifact that carries no
\* checksum metadata
C26_Witness ==
    /\ Returned("restore")
    /\ cur.ret = "success"
    /\ store[backups[cur.base].s3_key].meta = NullSum

\* the days a record of the kind is kept
RetentionDays(backup_type) ==
    IF backup_type = "full" THEN FullDays ELSE IncrementalDays

\* C27: a prune run selects a listed BackupRecord exactly when its age in
\* whole days is greater than the retention days of its kind: a full backup of
\* age FullDays + 1 is selected, one of age FullDays or less is not.
C27_PruneSelectsByAge ==
    Returned("prune")
        => \A i \in cur.listed :
              i \in cur.candidates
                  <=> now - backups[i].start_ts > RetentionDays(backups[i].backup_type)

\* C28: for the same ledger, policy and time, a dry run reports the same
\* candidates as a run that deletes, and a dry run issues no delete to the
\* object store.
C28_DryRunSameCandidates ==
    /\ [](pc = "idle"
          => \A o \in LedgerOutcomes, skew \in ZoneSkews :
                LET listed == list_backups(backups, o)
                    dry == PruneRun(backups, listed, now, skew, TRUE)
                    wet == PruneRun(backups, listed, now, skew, FALSE)
                IN  /\ dry.candidates = wet.candidates
                    /\ dry.deletes = {})
    /\ [][(pc = "idle" /\ pc' = "returned" /\ cur'.op = "prune"
              /\ cur'.deletes = {}) => store' = store]_vars

\* a prune run has reported candidates that all have an object key, and has
\* issued no delete: a dry run over records past their retention
C28_Witness ==
    /\ Returned("prune")
    /\ cur.candidates # {}
    /\ cur.deletes = {}
    /\ \A i \in cur.candidates : backups[i].s3_key \in DOMAIN store

\* compression = 'gzip' if backup_file.endswith('.gz') else None
CompressionArg(file) == IF file[2] = "gz" THEN "gzip" ELSE "NULL"

\* encryption = aws_config.get('encryption', 'SSE-S3')
EncryptionArg == "SSE-S3"

\* C29: after a successful full backup, the completed BackupRecord in the
\* ledger carries the artifact's checksum and remote key, and the compression
\* and encryption descriptors create_full_backup passed when finalizing.
C29_CompletedCarriesDescriptors ==
    [][(pc = "fb_finalize" /\ pc' = "returned" /\ cur'.ret = "success"
           /\ backups'[cur.id].status = "completed")
          => /\ backups'[cur.id].s3_key = cur.key
             /\ backups'[cur.id].checksum = cur.sum
             /\ backups'[cur.id].compression = CompressionArg(cur.file)
             /\ backups'[cur.id].encryption = EncryptionArg]_vars

\* C30: every create_full_backup and create_incremental_backup that has
\* returned, with success or failure, has left the one BackupRecord of its
\* attempt in the ledger.
C30_OneRecordPerAttempt ==
    (pc = "returned" /\ cur.op \in {"full", "incremental"})
        => backups[cur.id].status # "absent"

C32_RoundTrip ==
    /\ Returned("decompress_file") /\ cur.ret = "true" => cur.unpacked = cur.input
    /\ pc = "compressed" => decompress_bytes(cur.packed[1]).ok
    /\ pc = "compressed" =>
           decompress_bytes(cur.packed[1]).data = cur.input

\* a content of several lines, the last one unterminated, went through both
C32_Witness ==
    /\ Returned("decompress_file")
    /\ cur.ret = "true"
    /\ Len(cur.input) = MaxLen
    /\ cur.input[1] = Newline
    /\ cur.input[MaxLen] # Newline

\* C33: restore_backup never invokes the restore-apply tool on a base artifact
\* whose checksum differs from the checksum stored in the base BackupRecord:
\* the step that gets to the tool comes from a download, or from the
\* decompression of a download, whose checksum is the record's
C33_ToolOnVerifiedBase ==
    /\ [](pc = "rs_decompress" =>
             calculate_checksum(cur.file) = backups[cur.base].checksum)
    /\ [][pc' = "rs_apply" =>
             \/ /\ pc = "rs_download"
                /\ calculate_checksum(cur'.file) = backups[cur.base].checksum
             \/ /\ pc = "rs_decompress"
                /\ cur'.file = decompress_file(cur.file)]_vars

\* the tool ran on a base whose object carries no checksum metadata
C33_Witness ==
    /\ pc \in {"rs_wal", "rs_recovery"}
    /\ cur.tool
    /\ store[backups[cur.base].s3_key].meta = NullSum

\* C34: for any sequence of backup operations run on one BackupEngine, the
\* temporary work area exists while each operation's dump step runs, for the
\* second and later operations as well as the first
C34_WorkAreaAtDump == pc = "fb_dump" => b_temp

\* C35: in non-dry-run mode, a prune run issues a delete to the object store
\* for every record it marks for pruning
C35_DeleteForEveryMarked ==
    (Returned("prune") /\ ~cur.dry_run)
        => \A i \in cur.candidates : backups[i].s3_key \in cur.deletes

\* C36: if compressing the dump fails, create_full_backup does not abort: the
\* step after the compression is the upload whether the file was compressed
\* or kept, the ledger is not touched, and what the upload then sends is the
\* file as the dump wrote it, under the name without .gz
C36_CompressionFailureGoesOn ==
    /\ [][pc = "fb_compress" =>
             /\ pc' = "fb_upload"
             /\ cur'.file \in {cur.file, compress_file(cur.file)}
             /\ backups' = backups]_vars
    /\ [][(pc = "fb_upload" /\ cur.file[2] = "plain" /\ store' # store) =>
             LET key == get_s3_key("full", now, <<cur.id, ".sql">>)
             IN  /\ key \in DOMAIN store'
                 /\ store'[key].data \in {cur.file, Damaged(cur.file)}
                 /\ store'[key].meta = calculate_checksum(cur.file)]_vars

\* a full backup whose dump was not compressed finished completed
C36_Witness ==
    /\ Returned("full")
    /\ cur.ret = "success"
    /\ backups[cur.id].status = "completed"
    /\ backups[cur.id].s3_key \in DOMAIN store
    /\ store[backups[cur.id].s3_key].data[2] = "plain"

\* the remote keys the ledger's records refer to
ReferencedKeys ==
    {backups[i].s3_key : i \in {j \in BackupIds : backups[j].s3_key # NullKey}}
    \cup {w.s3_key : w \in wals}

C39_SequenceFitsColumn ==
    pc = "ib_loop" =>
        \A i \in 1..Len(cur.todo) : FitsBigint(extract_wal_sequence(cur.todo[i]))

\* C40: after any sequence of start() and stop() calls on a BackupScheduler, at
\* most one scheduler loop thread is active, so two scheduled backup
\* operations never execute concurrently
C40_OneLoopThread ==
    /\ Cardinality(ActiveThreads(sched)) <= 1
    /\ Cardinality({t \in ThreadIds :
                       sched.threads[t] \in {"full", "incremental"}}) <= 1

\* ------------------------------------------------------------- specifications
\* between operations: the clock advances, the caller takes a result
ClockNext ==
    \/ Tick
    \/ Return

FullBackupNext ==
    \/ NewBackupEngine
    \/ \E o \in LedgerOutcomes : FullBackupBegin(o)
    \/ \E d \in DumpOutcomes, c \in Contents : FullBackupDump(d, c)
    \/ \E ok \in BOOLEAN : FullBackupCompress(ok)
    \/ \E o \in UploadOutcomes : FullBackupUpload(o)
    \/ \E o \in LedgerOutcomes, removed \in BOOLEAN : FullBackupFinalize(o, removed)
    \/ \E o \in LedgerOutcomes, removed \in BOOLEAN : FullBackupExcept(o, removed)

IncrementalNext ==
    \/ \E files \in Listings, removed \in BOOLEAN : IncrementalBegin(files, removed)
    \/ \E o \in UploadOutcomes, l \in LedgerOutcomes : IncrementalSegment(o, l)
    \/ \E o \in LedgerOutcomes, removed \in BOOLEAN : IncrementalFinish(o, removed)

\* the steps of restore_backup after the choice of the base
RestoreSteps ==
    \/ NewRestoreEngine
    \/ \E o \in LedgerOutcomes, mkdir_ok \in BOOLEAN, l \in LedgerOutcomes :
          RestoreLookup(o, mkdir_ok, l)
    \/ \E d \in DownloadOutcomes : RestoreDownload(d)
    \/ \E ok \in BOOLEAN : RestoreDecompress(ok)
    \/ \E t \in ToolOutcomes : RestoreApply(t)
    \/ \E o \in LedgerOutcomes : RestoreWalList(o)
    \/ \E ok \in BOOLEAN : RestoreRecovery(ok)
    \/ \E o \in LedgerOutcomes, removed \in BOOLEAN : RestoreFinalize(o, removed)
    \/ \E o \in LedgerOutcomes, removed \in BOOLEAN : RestoreExcept(o, removed)

\* where no segment is replayed a target only says whether the replay is
\* asked for: no target, or one
PlainTargets == {NoTarget, [day |-> MaxTime, tz |-> "aware"]}

\* restore_backup over a ledger written by this program: the segments an
\* incremental backup records carry the identifier of the incremental backup,
\* whose record has no remote key, so a restore never gets to replay a
\* segment (RestoreWalSegment)
RestoreNext ==
    \/ \E b \in BackupIds \cup {NoId}, t \in PlainTargets, o \in LedgerOutcomes :
          RestoreBegin(b, t, o)
    \/ RestoreSteps

PruneNext ==
    \E dry_run \in BOOLEAN, o \in LedgerOutcomes, skew \in ZoneSkews :
        Prune(dry_run, o, skew)

Next ==
    \/ ClockNext
    \/ FullBackupNext
    \/ IncrementalNext
    \/ RestoreNext
    \/ PruneNext

Spec == Init /\ [][Next]_vars

\* the operations that write BackupRecords
SpecBackup == Init /\ [][ClockNext \/ FullBackupNext \/ IncrementalNext \/ PruneNext]_vars

\* full backups and restores
SpecRestore == Init /\ [][ClockNext \/ FullBackupNext \/ RestoreNext]_vars

\* restore_backup with the segment loop of _apply_wal_files
ReplayNext ==
    \/ \E b \in BackupIds \cup {NoId}, t \in Targets, o \in LedgerOutcomes :
          RestoreBegin(b, t, o)
    \/ RestoreSteps
    \/ \E d \in DownloadOutcomes, t \in ToolOutcomes : RestoreWalSegment(d, t)

\* the row create_incremental_backup builds for segment w at day d, filed
\* under backup id
WalRow(w, id, d) ==
    [wal_name |-> w, backup_id |-> id, end_ts |-> d,
     s3_key |-> get_s3_key("incremental", d, w),
     checksum |-> calculate_checksum(WalFile(w)),
     sequence_number |-> extract_wal_sequence(w)]

RECURSIVE PutAll(_, _)
PutAll(s, rows) ==
    IF rows = {} THEN s
    ELSE LET r == CHOOSE x \in rows : TRUE
         IN  PutAll(upload_file(s, WalFile(r.wal_name), "incremental",
                                r.wal_name, r.end_ts, "ok").store,
                    rows \ {r})

\* the bucket with its objects as a writer that sets no metadata leaves them
WithoutMetadata(s) == [k \in DOMAIN s |-> [s[k] EXCEPT !.meta = NullSum]]

\* a ledger for the segment loop: backup 1 is a completed full backup as
\* create_full_backup leaves it, and wal_metadata holds rows filed under it,
\* each with its object in the bucket. No operation of the program files a
\* segment under a full backup, so these ledgers are drawn, not reached.
\* The objects carry the checksum metadata upload_file sets, or none
InitReplay ==
    \E gz \in BOOLEAN, tagged \in BOOLEAN :
    LET dump == execute_pg_dump(TRUE, "ok", "dump")
        file == IF gz THEN compress_file(dump) ELSE dump
        u == upload_file(<<>>, file, "full", BackupFilename(1, file), 0, "ok")
        row == UpdatedRow(RunningFull(0), "completed", u.key,
                          calculate_checksum(file))
    IN  /\ backups = [i \in BackupIds |-> IF i = 1 THEN row ELSE AbsentBackup]
        /\ \E names \in {S \in Listings : \A w \in S : IsWalFile(w)} :
              \E ends \in [names -> Days] :
                 /\ wals = {WalRow(w, 1, ends[w]) : w \in names}
                 /\ store = IF tagged THEN PutAll(u.store, wals)
                            ELSE WithoutMetadata(PutAll(u.store, wals))
        /\ restores = [i \in RestoreIds |-> AbsentRestore]
        /\ now = MaxTime
        /\ fk_enforced = TRUE
        /\ b_temp = TRUE
        /\ r_temp = TRUE
        /\ r_conn = TRUE
        /\ n_backups = 1
        /\ n_restores = 0
        /\ pc = "idle"
        /\ cur = NoLocals
        /\ sched = NewScheduler

\* restores over a ledger that holds segments for the base
SpecReplay == InitReplay /\ [][Return \/ ReplayNext]_vars

\* backups and restores on one day
SpecArchive == Init /\ [][Return \/ FullBackupNext \/ IncrementalNext \/ RestoreNext]_vars

\* full backups and prune runs
SpecRetention == Init /\ [][ClockNext \/ FullBackupNext \/ PruneNext]_vars

\* incremental backups while another process may write to the segment files
RaceNext ==
    \/ \E files \in Listings, removed \in BOOLEAN : IncrementalBegin(files, removed)
    \/ \E o \in UploadOutcomes, l \in LedgerOutcomes, changed \in BOOLEAN :
          IncrementalSegmentOn(o, l, changed)
    \/ \E o \in LedgerOutcomes, removed \in BOOLEAN : IncrementalFinish(o, removed)

SpecRace == Init /\ [][Return \/ RaceNext]_vars

\* incremental backups over a directory of any names
SequenceNext ==
    \/ \E files \in AnyListings, removed \in BOOLEAN : IncrementalBegin(files, removed)
    \/ \E o \in UploadOutcomes, l \in LedgerOutcomes : IncrementalSegment(o, l)
    \/ \E o \in LedgerOutcomes, removed \in BOOLEAN : IncrementalFinish(o, removed)

SpecSequence == Init /\ [][Return \/ SequenceNext]_vars

\* the jobs setup_schedule registers, one per task
JobKinds == {"full", "incremental", "prune"}

\* setup_schedule: three more jobs on the schedule module's job list, which
\* nothing clears
setup_schedule(jobs) == jobs + 1

\* if self.running: return
AlreadyRunning(s) == s.running

\* BackupScheduler.start: nothing when running is set; otherwise the jobs are
\* registered, running is set and a new loop thread is started
SchedulerStart ==
    /\ sched.caller = "idle"
    /\ IF AlreadyRunning(sched)
       THEN UNCHANGED sched
       ELSE \E t \in ThreadIds :
               /\ sched.threads[t] = "none"
               /\ \A u \in ThreadIds : u < t => sched.threads[u] # "none"
               /\ sched' = [sched EXCEPT !.jobs = setup_schedule(@),
                                         !.running = TRUE,
                                         !.scheduler_thread = t,
                                         !.threads[t] = "test"]
    /\ UNCHANGED <<backups, wals, restores, store, now, fk_enforced, b_temp,
                   r_temp, r_conn, n_backups, n_restores, pc, cur>>

\* BackupScheduler.stop: running is cleared, then the thread of
\* scheduler_thread, if any, is joined
SchedulerStop ==
    /\ sched.caller = "idle"
    /\ sched' = [sched EXCEPT !.running = FALSE,
                              !.caller = IF sched.scheduler_thread = NoThread
                                         THEN "idle" ELSE "joining"]
    /\ UNCHANGED <<backups, wals, restores, store, now, fk_enforced, b_temp,
                   r_temp, r_conn, n_backups, n_restores, pc, cur>>

\* join(timeout=5) returns: the thread has ended, or the five seconds pass
\* while it is in its sleep of sixty seconds or inside a job
JoinReturns ==
    /\ sched.caller = "joining"
    /\ sched.threads[sched.scheduler_thread] \in {"ended", "sleep"} \cup JobKinds
    /\ sched' = [sched EXCEPT !.caller = "idle"]
    /\ UNCHANGED <<backups, wals, restores, store, now, fk_enforced, b_temp,
                   r_temp, r_conn, n_backups, n_restores, pc, cur>>

\* run_scheduler, while self.running: the thread goes on to run_pending, or
\* leaves the loop and ends
LoopTest(t) ==
    /\ sched.threads[t] = "test"
    /\ sched' = [sched EXCEPT !.threads[t] =
                                  IF sched.running THEN "pending" ELSE "ended"]
    /\ UNCHANGED <<backups, wals, restores, store, now, fk_enforced, b_temp,
                   r_temp, r_conn, n_backups, n_restores, pc, cur>>

\* schedule.run_pending: the thread calls a registered job that is due
RunPending(t, job) ==
    /\ sched.threads[t] = "pending"
    /\ sched.jobs > 0
    /\ sched' = [sched EXCEPT !.threads[t] = job]
    /\ UNCHANGED <<backups, wals, restores, store, now, fk_enforced, b_temp,
                   r_temp, r_conn, n_backups, n_restores, pc, cur>>

\* the job's function (_run_full_backup, _run_incremental_backup, _run_prune)
\* returns to run_pending
JobReturns(t) ==
    /\ sched.threads[t] \in JobKinds
    /\ sched' = [sched EXCEPT !.threads[t] = "pending"]
    /\ UNCHANGED <<backups, wals, restores, store, now, fk_enforced, b_temp,
                   r_temp, r_conn, n_backups, n_restores, pc, cur>>

\* no job is due any more: time.sleep(60)
Sleep(t) ==
    /\ sched.threads[t] = "pending"
    /\ sched' = [sched EXCEPT !.threads[t] = "sleep"]
    /\ UNCHANGED <<backups, wals, restores, store, now, fk_enforced, b_temp,
                   r_temp, r_conn, n_backups, n_restores, pc, cur>>

\* the sleep is over: back to the loop's test
Wake(t) ==
    /\ sched.threads[t] = "sleep"
    /\ sched' = [sched EXCEPT !.threads[t] = "test"]
    /\ UNCHANGED <<backups, wals, restores, store, now, fk_enforced, b_temp,
                   r_temp, r_conn, n_backups, n_restores, pc, cur>>

SchedulerNext ==
    \/ SchedulerStart
    \/ SchedulerStop
    \/ JoinReturns
    \/ \E t \in ThreadIds : LoopTest(t)
    \/ \E t \in ThreadIds, job \in JobKinds : RunPending(t, job)
    \/ \E t \in ThreadIds : JobReturns(t)
    \/ \E t \in ThreadIds : Sleep(t)
    \/ \E t \in ThreadIds : Wake(t)

\* a BackupScheduler, its caller and its loop threads
SpecScheduler == Init /\ [][SchedulerNext]_vars

\* compress_file(input, output): the gzip member of the input's bytes, or
\* False when reading or writing fails
CompressFile(ok) ==
    /\ pc = "idle"
    /\ cur.packed = <<>>
    /\ IF ok
       THEN /\ cur' = [cur EXCEPT !.packed = <<compress_bytes(cur.input)>>]
            /\ pc' = "compressed"
       ELSE /\ cur' = Result("compress_file", cur, "false")
            /\ pc' = "returned"
    /\ UNCHANGED sched
    /\ UNCHANGED <<backups, wals, restores, store, now, fk_enforced, b_temp,
                   r_temp, r_conn, n_backups, n_restores>>

\* decompress_file(compressed, output) on what compress_file wrote
DecompressFile(ok) ==
    /\ pc = "compressed"
    /\ LET r == decompress_bytes(cur.packed[1])
       IN  IF ok /\ r.ok
           THEN cur' = [Result("decompress_file", cur, "true")
                           EXCEPT !.unpacked = r.data]
           ELSE cur' = Result("decompress_file", cur, "false")
    /\ pc' = "returned"
    /\ UNCHANGED sched
    /\ UNCHANGED <<backups, wals, restores, store, now, fk_enforced, b_temp,
                   r_temp, r_conn, n_backups, n_restores>>

\* a file of any content
InitCodec ==
    /\ backups = [i \in BackupIds |-> AbsentBackup]
    /\ wals = {}
    /\ restores = [i \in RestoreIds |-> AbsentRestore]
    /\ store = <<>>
    /\ now = 0
    /\ fk_enforced = TRUE
    /\ b_temp = TRUE
    /\ r_temp = TRUE
    /\ r_conn = TRUE
    /\ n_backups = 0
    /\ n_restores = 0
    /\ pc = "idle"
    /\ \E data \in ByteContents : cur = [NoLocals EXCEPT !.input = data]
    /\ sched = NewScheduler

CodecNext ==
    \/ \E ok \in BOOLEAN : CompressFile(ok)
    \/ \E ok \in BOOLEAN : DecompressFile(ok)

\* compression and decompression of one file
SpecCodec == InitCodec /\ [][CodecNext]_vars

====
